---- MODULE Spec2Model ----
(***************************************************************************)
(* Cost-basis ledger of analysis_crypt: src/src/analyzer.py                *)
(* (CryptoAnalyzer.calculate_yearly_profit, CryptoAnalyzer._analyze_data)  *)
(* over the flat record table the analyzer iterates.                       *)
(* Also: the analyze_transactions calls of the sessions that share one     *)
(* analyzer, the scenario calculator, and the checkpoint log of            *)
(* src/src/data_loader.py (save_checkpoint, load_checkpoints).             *)
(*                                                                         *)
(* Numbers.  The program computes with Python floats.  A number is         *)
(* modelled as an exact fraction <<n, d>> in lowest terms with d > 0, and  *)
(* a missing value (pandas NaN, pd.notna(x) false) as <<0, 0>>.  Rounding  *)
(* of the binary floating-point format is not modelled.                    *)
(*                                                                         *)
(* Timestamps.  A parsed timestamp is an integer 1..MaxTs; NaT (an         *)
(* unparsable timestamp, errors='coerce') is 0.                            *)
(***************************************************************************)
EXTENDS Integers, Sequences, FiniteSets, TLC

\* ------------------------------------------------------------------ bounds

MaxEvents == 3
MaxShapeEvents == 2
MaxTs == 2
MaxSortLen == 3
MaxTable == 2
MaxCalls == 2
MaxSaves == 3

\* ---------------------------------------------------------------- numbers

RECURSIVE Gcd(_, _)
Gcd(a, b) == IF b = 0 THEN a ELSE Gcd(b, a % b)

Abs(n) == IF n < 0 THEN -n ELSE n

Norm(n, d) == LET g == Gcd(Abs(n), d) IN <<n \div g, d \div g>>

NaN == <<0, 0>>
Zero == <<0, 1>>
Num(n) == <<n, 1>>
Frac(n, d) == Norm(n, d)

notna(x) == x[2] # 0

RAdd(a, b) == Norm(a[1] * b[2] + b[1] * a[2], a[2] * b[2])
RNeg(a) == <<-a[1], a[2]>>
RSub(a, b) == RAdd(a, RNeg(b))
RMul(a, b) == Norm(a[1] * b[1], a[2] * b[2])
RDiv(a, b) == IF b[1] > 0 THEN Norm(a[1] * b[2], a[2] * b[1])
              ELSE Norm(-(a[1] * b[2]), a[2] * (-b[1]))
RAbs(a) == <<Abs(a[1]), a[2]>>
RPos(a) == a[1] > 0
RNonNeg(a) == a[1] >= 0
RLt(a, b) == a[1] * b[2] < b[1] * a[2]

\* ---------------------------------------------------------------- records

NaT == 0
\* one timestamp per calendar year: 1 lies in 2023, 2 in 2024, ...
Year(ts) == 2022 + ts
Timestamps == 1..MaxTs

\* Settlement categories (column 'seisan-kubun', written here in ASCII).  The staking
\* transfer and the fee rebate are matched by equality, the marketplace and the
\* exchange-spot marker by substring; BOTH is a category text holding both markers.
STAKING == "crypto-deposit-send"
REBATE == "exchange-spot fee-rebate"
MARKET == "marketplace-trade"
SPOT == "exchange-spot-trade"
BOTH == "marketplace-trade/exchange-spot-trade"
FIAT == "fiat-deposit"

HasMarket(cat) == cat \in {MARKET, BOTH}
HasSpot(cat) == cat \in {SPOT, BOTH}

WellKnown == {"BTC", "ETH", "SOL", "XRP", "DOGE", "XLM"}

Row(coin, side, cat, dir, qty, sqty, rate, amount, fee) ==
    [coin |-> coin, side |-> side, cat |-> cat, dir |-> dir, qty |-> qty,
     sqty |-> sqty, rate |-> rate, amount |-> amount, fee |-> fee]

At(r, ts) == [ts |-> ts] @@ r

\* ---------------------------------------------------- shared row handling

\* Mutant: the quantity is read from the settled-quantity column.
StakingQuantity_Settled(row) ==
    IF notna(row.sqty) /\ RPos(row.sqty) THEN row.sqty ELSE Zero

\* Staking deposit / withdrawal quantity: used only when present and > 0.
StakingQuantity(row) ==
    IF notna(row.qty) /\ RPos(row.qty) THEN row.qty ELSE Zero

\* Mutant: the size of the settlement amount is used whatever its sign.
RebateAmount_Abs(row) ==
    IF notna(row.amount) THEN RAbs(row.amount) ELSE Zero

\* Fee rebate: the settlement amount, used only when present and > 0.
RebateAmount(row) ==
    IF notna(row.amount) /\ RPos(row.amount) THEN row.amount ELSE Zero

IsStakingDeposit(row) == row.cat = STAKING /\ row.dir = "Deposit"
IsStakingFee(row) == row.cat = STAKING /\ row.dir = "Withdrawal"
IsRebate(row) == row.cat = REBATE

\* --------------------------------------------- calculate_yearly_profit

EmptyHolding == [quantity |-> Zero, total_cost |-> Zero]

\* The key under which a row's profit is booked.  A parsed timestamp gives
\* <<year, 0>>.  A NaT row has year NaN; NaN is not equal to itself, so the
\* test "year not in yearly_profits" succeeds for every such row and the row
\* gets an entry of its own, <<0, k>> for the k-th NaN row.
YearKey(ts, nNaN) == IF ts = NaT THEN <<0, nNaN + 1>> ELSE <<Year(ts), 0>>

\* Mutant: the exchange-spot marker is tested before the marketplace marker.
YearlyBuy_SpotFirst(row) ==
    IF HasSpot(row.cat) THEN
        LET quantity == IF notna(row.sqty) THEN row.sqty ELSE Zero
            cost0 == IF notna(row.rate) /\ notna(row.sqty)
                     THEN RMul(quantity, row.rate) ELSE Zero
        IN  [quantity |-> quantity,
             cost |-> IF notna(row.fee) THEN RAdd(cost0, row.fee) ELSE cost0]
    ELSE IF HasMarket(row.cat) THEN
        IF notna(row.amount) THEN
            [quantity |-> IF notna(row.sqty) THEN row.sqty
                          ELSE IF notna(row.qty) THEN row.qty ELSE Zero,
             cost |-> RAbs(row.amount)]
        ELSE [quantity |-> Zero, cost |-> Zero]
    ELSE [quantity |-> Zero, cost |-> Zero]

\* Purchase: the quantity and cost read from a row with side Buy.
YearlyBuy(row) ==
    IF HasMarket(row.cat) THEN
        IF notna(row.amount) THEN
            [quantity |-> IF notna(row.sqty) THEN row.sqty
                          ELSE IF notna(row.qty) THEN row.qty ELSE Zero,
             cost |-> RAbs(row.amount)]
        ELSE [quantity |-> Zero, cost |-> Zero]
    ELSE IF HasSpot(row.cat) THEN
        LET quantity == IF notna(row.sqty) THEN row.sqty ELSE Zero
            cost0 == IF notna(row.rate) /\ notna(row.sqty)
                     THEN RMul(quantity, row.rate) ELSE Zero
        IN  [quantity |-> quantity,
             cost |-> IF notna(row.fee) THEN RAdd(cost0, row.fee) ELSE cost0]
    ELSE [quantity |-> Zero, cost |-> Zero]

\* Sale: the quantity and sale amount read from a row with side Sell.
YearlySell(row) ==
    IF HasMarket(row.cat) THEN
        IF notna(row.amount) THEN
            [quantity |-> IF notna(row.sqty) THEN row.sqty
                          ELSE IF notna(row.qty) THEN row.qty ELSE Zero,
             sale_amount |-> row.amount]
        ELSE [quantity |-> Zero, sale_amount |-> Zero]
    ELSE
        LET quantity == IF notna(row.sqty) THEN row.sqty ELSE Zero
            sale0 == IF notna(row.amount) THEN row.amount
                     ELSE IF notna(row.rate) /\ notna(row.sqty)
                          THEN RMul(quantity, row.rate) ELSE Zero
        IN  [quantity |-> quantity,
             sale_amount |-> IF notna(row.fee) THEN RSub(sale0, row.fee) ELSE sale0]

\* Whether the moving-average sale is booked at all.
SellCounted(h, quantity) == RPos(quantity) /\ RPos(h.quantity)

\* Average acquisition cost, over the quantity held before the sale.
AvgCost(h) == IF RPos(h.quantity) THEN RDiv(h.total_cost, h.quantity) ELSE Zero

\* Mutant: the average is taken over the quantity left after the sale.
CostOfSold_AfterSale(h, quantity) ==
    LET left == RSub(h.quantity, quantity)
    IN  IF RPos(left) THEN RMul(RDiv(h.total_cost, left), quantity) ELSE Zero

CostOfSold(h, quantity) == RMul(AvgCost(h), quantity)

SellProfit(h, quantity, sale_amount) == RSub(sale_amount, CostOfSold(h, quantity))

\* Mutant: the cost of the sold units is added to the cost instead of removed.
SellHolding_Added(h, quantity) ==
    [quantity |-> RSub(h.quantity, quantity),
     total_cost |-> RAdd(h.total_cost, CostOfSold(h, quantity))]

SellHolding(h, quantity) ==
    [quantity |-> RSub(h.quantity, quantity),
     total_cost |-> RSub(h.total_cost, CostOfSold(h, quantity))]

BuyHolding(h, b) ==
    IF RPos(b.quantity)
    THEN [quantity |-> RAdd(h.quantity, b.quantity),
          total_cost |-> RAdd(h.total_cost, b.cost)]
    ELSE h

AddYearProfit(yp, year, profit) == [yp EXCEPT ![year] = RAdd(@, profit)]

\* Mutant: the coin's profit of the year is overwritten, not accumulated.
AddCoinProfit_Overwrite(ycp, year, coin, profit) ==
    [ycp EXCEPT ![year] = [@ EXCEPT ![coin] = profit]]

AddCoinProfit(ycp, year, coin, profit) ==
    [ycp EXCEPT ![year] = [@ EXCEPT ![coin] = RAdd(@, profit)]]

\* Mutant: the holding is emptied whenever a row of the coin is met.
InitHolding_Always(holdings, coin) == (coin :> EmptyHolding) @@ holdings

\* A coin met for the first time starts with an empty holding.
InitHolding(holdings, coin) ==
    IF coin \in DOMAIN holdings THEN holdings
    ELSE (coin :> EmptyHolding) @@ holdings

\* One iteration of the replay loop.  st = [holdings, yp, ycp, nNaN]:
\* coin_holdings, yearly_profits, yearly_coin_profits, and the number of NaN
\* year keys created so far.
YearlyRow(st, row) ==
    IF row.coin = "JPY" THEN st
    ELSE
    LET coin == row.coin
        year == YearKey(row.ts, st.nNaN)
        fresh == year \notin DOMAIN st.yp
        yp1 == IF fresh THEN (year :> Zero) @@ st.yp ELSE st.yp
        ycp0 == IF fresh THEN (year :> <<>>) @@ st.ycp ELSE st.ycp
        ycp1 == IF coin \in DOMAIN ycp0[year] THEN ycp0
                ELSE [ycp0 EXCEPT ![year] = (coin :> Zero) @@ @]
        ch1 == InitHolding(st.holdings, coin)
        h == ch1[coin]
        st1 == [holdings |-> ch1, yp |-> yp1, ycp |-> ycp1,
                nNaN |-> IF row.ts = NaT THEN st.nNaN + 1 ELSE st.nNaN]
    IN  IF IsStakingDeposit(row) THEN
            [st1 EXCEPT !.holdings[coin].quantity = RAdd(@, StakingQuantity(row))]
        ELSE IF IsStakingFee(row) THEN
            [st1 EXCEPT !.holdings[coin].quantity = RSub(@, StakingQuantity(row))]
        ELSE IF IsRebate(row) THEN
            [st1 EXCEPT !.holdings[coin].total_cost = RSub(@, RebateAmount(row))]
        ELSE IF row.side = "Buy" THEN
            [st1 EXCEPT !.holdings[coin] = BuyHolding(h, YearlyBuy(row))]
        ELSE IF row.side = "Sell" /\ (HasSpot(row.cat) \/ HasMarket(row.cat)) THEN
            LET s == YearlySell(row) IN
            IF SellCounted(h, s.quantity) THEN
                [holdings |-> [ch1 EXCEPT ![coin] = SellHolding(h, s.quantity)],
                 yp |-> AddYearProfit(yp1, year, SellProfit(h, s.quantity, s.sale_amount)),
                 ycp |-> AddCoinProfit(ycp1, year, coin,
                                       SellProfit(h, s.quantity, s.sale_amount)),
                 nNaN |-> st1.nNaN]
            ELSE st1
        ELSE st1

\* ------------------------------------------------------- _analyze_data

\* The accumulators of one coin.
EmptySnap == [total_quantity |-> Zero, total_principal |-> Zero,
              sold_quantity |-> Zero, realized_profit |-> Zero]

\* Marketplace row: only a Buy with a settlement amount is booked.
SnapMarket(s, row) ==
    IF notna(row.amount) /\ row.side = "Buy"
       /\ (notna(row.sqty) \/ notna(row.qty))
    THEN LET quantity == IF notna(row.sqty) THEN row.sqty ELSE row.qty
         IN  [s EXCEPT !.total_quantity = RAdd(@, quantity),
                       !.total_principal = RAdd(@, RAbs(row.amount))]
    ELSE s

SpotQuantity(row) == IF notna(row.sqty) THEN row.sqty ELSE Zero
SpotPrice(row) == IF notna(row.rate) THEN row.rate ELSE Zero
SpotFee(row) == IF notna(row.fee) THEN row.fee ELSE Zero

\* Mutant: the order fee is left out of the principal.
SnapSpotBuy_NoFee(s, row) ==
    [s EXCEPT !.total_quantity = RAdd(@, SpotQuantity(row)),
              !.total_principal = RAdd(@, RMul(SpotQuantity(row), SpotPrice(row)))]

SnapSpotBuy(s, row) ==
    [s EXCEPT !.total_quantity = RAdd(@, SpotQuantity(row)),
              !.total_principal =
                  RAdd(@, RAdd(RMul(SpotQuantity(row), SpotPrice(row)), SpotFee(row)))]

\* The sale amount of an exchange-spot row that is not a Buy.
SnapSaleAmount(row) ==
    IF notna(row.amount) THEN row.amount
    ELSE RMul(SpotQuantity(row), SpotPrice(row))

\* What a sale adds to realized_profit.
SnapRealized(s, row) == SnapSaleAmount(row)

\* Mutant: the average cost is taken over the quantity left after the sale.
SnapSellPrincipal_AfterSale(s, tq, quantity) ==
    IF RPos(tq) THEN
        LET avg_cost == RDiv(s.total_principal, tq)
        IN  RSub(s.total_principal, RMul(avg_cost, quantity))
    ELSE s.total_principal

\* The principal after a sale; tq is total_quantity after the subtraction.
SnapSellPrincipal(s, tq, quantity) ==
    IF RPos(tq) THEN
        LET before == RAdd(tq, quantity)
            avg_cost == IF RPos(before) THEN RDiv(s.total_principal, before) ELSE Zero
        IN  RSub(s.total_principal, RMul(avg_cost, quantity))
    ELSE s.total_principal

\* The else branch of the exchange-spot case: every side other than Buy.
SnapSpotSell(s, row) ==
    LET quantity == SpotQuantity(row)
        tq == RSub(s.total_quantity, quantity)
    IN  [total_quantity |-> tq,
         total_principal |-> SnapSellPrincipal(s, tq, quantity),
         sold_quantity |-> RAdd(s.sold_quantity, quantity),
         realized_profit |-> RAdd(s.realized_profit, SnapRealized(s, row))]

\* One iteration of the per-coin loop.
SnapRow(s, row) ==
    IF IsStakingDeposit(row) THEN
        [s EXCEPT !.total_quantity = RAdd(@, StakingQuantity(row))]
    ELSE IF IsStakingFee(row) THEN
        [s EXCEPT !.total_quantity = RSub(@, StakingQuantity(row))]
    ELSE IF IsRebate(row) THEN
        [s EXCEPT !.total_principal = RSub(@, RebateAmount(row))]
    ELSE IF HasMarket(row.cat) THEN SnapMarket(s, row)
    ELSE IF HasSpot(row.cat) THEN
        IF row.side = "Buy" THEN SnapSpotBuy(s, row) ELSE SnapSpotSell(s, row)
    ELSE s

\* The result entry of one coin.
AvgPrice(s) ==
    IF RPos(s.total_quantity) THEN RDiv(s.total_principal, s.total_quantity) ELSE Zero

\* Mutant: the unrealized profit is taken the wrong way round.
SnapResult_Swapped(s, current_price) ==
    LET current_value == RMul(s.total_quantity, current_price)
    IN  [principal |-> s.total_principal,
         quantity |-> s.total_quantity,
         avg_price |-> AvgPrice(s),
         current_value |-> current_value,
         unrealized_profit |-> RSub(s.total_principal, current_value),
         realized_profit |-> s.realized_profit]

SnapResult(s, current_price) ==
    LET current_value == RMul(s.total_quantity, current_price)
    IN  [principal |-> s.total_principal,
         quantity |-> s.total_quantity,
         avg_price |-> AvgPrice(s),
         current_value |-> current_value,
         unrealized_profit |-> RSub(current_value, s.total_principal),
         realized_profit |-> s.realized_profit]

\* filter_data_by_year as the analyzer consumes it: one table, every row for
\* 'all', otherwise the rows whose timestamp lies in the year (NaT never does).
ALL == 0
InYear(row, year) ==
    year = ALL \/ (row.ts # NaT /\ Year(row.ts) = year)

\* current_prices.get(coin, 0)
PriceOf(prices, coin) == IF coin \in DOMAIN prices THEN prices[coin] ELSE Zero

\* ------------------------------------------------------------ the inputs

\* The two records of the worked example: a Buy of 0.5 BTC at 5,000,000 with
\* fee 500, and a Sell of 0.2 BTC settled at 1,300,000.
ExampleBuy ==
    Row("BTC", "Buy", SPOT, "None", NaN, Frac(1, 2), Num(5000000), NaN, Num(500))
ExampleSell ==
    Row("BTC", "Sell", SPOT, "None", NaN, Frac(1, 5), NaN, Num(1300000), NaN)

StakingRows ==
    { Row("ETH", "None", STAKING, "Deposit", Num(1), NaN, NaN, NaN, NaN),
      Row("ETH", "Buy", STAKING, "Deposit", Num(1), Num(2), Num(10), Num(30), Num(1)),
      Row("ETH", "None", STAKING, "Withdrawal", Num(1), NaN, NaN, NaN, NaN) }

RebateRows ==
    { Row("ETH", "None", REBATE, "None", NaN, NaN, NaN, Num(3), NaN) }

SpotBuyRows ==
    { Row("ETH", "Buy", SPOT, "None", NaN, Num(1), Num(10), NaN, NaN),
      Row("ETH", "Buy", SPOT, "None", NaN, Num(2), Num(10), NaN, Num(1)) }

SpotSellRows ==
    { Row("ETH", "Sell", SPOT, "None", NaN, Num(1), Num(10), Num(30), NaN),
      Row("ETH", "Sell", SPOT, "None", NaN, Num(2), Num(10), NaN, NaN),
      Row("ETH", "Sell", SPOT, "None", NaN, Num(1), Num(10), Num(30), Num(1)) }

FiatRows ==
    { Row("JPY", "Buy", SPOT, "None", NaN, Num(1), Num(10), NaN, NaN) }

\* The records of the ledger runs.
Rows == {ExampleBuy, ExampleSell} \cup StakingRows \cup RebateRows
        \cup SpotBuyRows \cup SpotSellRows \cup FiatRows

\* Records of every other shape the two loops tell apart: missing or
\* non-positive fields, marketplace trades, no side, both markers, neither
\* marker, a coin outside the snapshot's list.
MissingFieldRows ==
    { Row("ETH", "None", STAKING, "Deposit", NaN, NaN, NaN, NaN, NaN),
      Row("ETH", "Sell", STAKING, "None", Num(1), Num(1), Num(10), Num(30), NaN),
      Row("ETH", "None", REBATE, "None", NaN, NaN, NaN, NaN, NaN),
      Row("ETH", "None", REBATE, "None", NaN, NaN, NaN, Num(-3), NaN),
      Row("ETH", "Buy", SPOT, "None", NaN, NaN, Num(10), NaN, Num(1)),
      Row("ETH", "Buy", SPOT, "None", NaN, Num(1), NaN, NaN, NaN),
      Row("ETH", "Sell", SPOT, "None", NaN, NaN, Num(10), Num(30), NaN) }

MarketRows ==
    { Row("ETH", "Buy", MARKET, "None", Num(2), Num(1), NaN, Num(-30), NaN),
      Row("ETH", "Buy", MARKET, "None", Num(2), NaN, NaN, Num(-30), NaN),
      Row("ETH", "Buy", MARKET, "None", NaN, NaN, NaN, Num(-30), NaN),
      Row("ETH", "Buy", MARKET, "None", NaN, Num(1), NaN, NaN, NaN),
      Row("ETH", "Sell", MARKET, "None", NaN, Num(1), NaN, Num(30), NaN) }

OtherRows ==
    { Row("ETH", "None", SPOT, "None", NaN, Num(1), Num(10), Num(30), NaN),
      Row("ETH", "Buy", BOTH, "None", NaN, Num(1), Num(10), Num(-30), NaN),
      Row("ETH", "Buy", FIAT, "None", NaN, Num(1), Num(10), Num(30), NaN),
      Row("ADA", "Buy", SPOT, "None", NaN, Num(1), Num(10), NaN, NaN),
      Row("ADA", "Sell", SPOT, "None", NaN, Num(1), Num(10), Num(30), NaN) }

\* Records that match an earlier rule and carry the fields of a later one (a
\* fee rebate with side Buy, a staking withdrawal with side Sell), and a fee
\* rebate of amount zero.
OverlapRows ==
    { Row("ETH", "Buy", REBATE, "None", NaN, Num(1), Num(10), Num(3), Num(1)),
      Row("ETH", "Sell", STAKING, "Withdrawal", Num(1), Num(2), Num(10), Num(30), NaN),
      Row("ETH", "None", REBATE, "None", NaN, NaN, NaN, Zero, NaN) }

ShapeRows == Rows \cup MissingFieldRows \cup MarketRows \cup OtherRows \cup OverlapRows

Years == { Year(t) : t \in Timestamps }

InitialPrices == [BTC |-> Zero, ETH |-> Zero, SOL |-> Zero, XRP |-> Zero,
                  DOGE |-> Zero, XLM |-> Zero]

\* ------------------------------------------------------------- the state

VARIABLES
    nEvents,              \* rows iterated so far
    lastTs,               \* timestamp of the row last iterated (sorted order)
    coin_holdings,        \* calculate_yearly_profit: coin -> quantity, total_cost
    yearly_profits,       \* calculate_yearly_profit: year key -> profit
    yearly_coin_profits,  \* calculate_yearly_profit: year key -> coin -> profit
    nNaN,                 \* NaN year keys created so far
    sel_year,             \* the year passed to analyze_transactions
    current_prices,       \* CryptoAnalyzer.current_prices
    snap,                 \* _analyze_data: coin -> accumulators
    last,                 \* history: the row last iterated and the state before it
    hist,                 \* history: per-coin sums the properties compare against
    all_data,             \* the loader's table, in input order
    sort_pc,              \* "input", "called" or "permuted"
    result,               \* what calculate_yearly_profit returned last
    first,                \* history: the table and result of the first call
    transaction_data,     \* CryptoAnalyzer.transaction_data: None or the cached table
    calls,                \* analyze_transactions: session -> position, arguments, locals
    nCalls,               \* analyze_transactions calls begun so far
    run,                  \* "first" or "second": the process run, each on its record set
    firstCall,            \* history: the first analyze_transactions call that returned
    scenario,             \* the scenario call made last: its arguments and what it returned
    checkpoint_file,      \* price_history.json: what the file holds
    saves,                \* save_checkpoint: session -> position and locals
    nSaves,               \* save_checkpoint calls begun so far
    stored,               \* history: the checkpoints whose save has returned, in order
    lastSave,             \* history: the save that returned last
    gmo_data,             \* DataLoader.gmo_data: the rows of the first feed
    mercari_data,         \* DataLoader.mercari_data: the rows of the second feed
    entry                 \* the call on the real loader made last and how it ended

ledgerVars == <<nEvents, lastTs, coin_holdings, yearly_profits, yearly_coin_profits,
                nNaN, sel_year, current_prices, snap, last, hist>>
sortVars == <<all_data, sort_pc, result, first>>
callVars == <<transaction_data, calls, nCalls, run, firstCall>>
logVars == <<checkpoint_file, saves, nSaves, stored, lastSave>>
loaderVars == <<gmo_data, mercari_data, entry>>
extVars == <<callVars, scenario, logVars, loaderVars>>
vars == <<ledgerVars, sortVars, extVars>>

\* ----------------------------------------------------------- the history

\* The event kinds of the classification rules, in their priority order.
Kind(row) ==
    IF IsStakingDeposit(row) THEN "StakingDeposit"
    ELSE IF IsStakingFee(row) THEN "StakingFee"
    ELSE IF IsRebate(row) THEN "FeeRebate"
    ELSE IF HasMarket(row.cat) THEN
        (IF row.side = "Buy" THEN "MarketBuy"
         ELSE IF row.side = "Sell" THEN "MarketSell" ELSE "Drop")
    ELSE IF HasSpot(row.cat) THEN
        (IF row.side = "Buy" THEN "Buy"
         ELSE IF row.side = "Sell" THEN "Sell" ELSE "Drop")
    ELSE "Drop"

\* Quantity and proceeds of an exchange-spot Sell as the classification
\* rules give them: the settled quantity, and the settlement amount when
\* present, else quantity * rate.
QtySold(row) == IF notna(row.sqty) THEN row.sqty ELSE Zero
Proceeds(row) ==
    IF notna(row.amount) THEN row.amount
    ELSE IF notna(row.rate) THEN RMul(QtySold(row), row.rate) ELSE Zero

Get(f, k, default) == IF k \in DOMAIN f THEN f[k] ELSE default
Put(f, k, v) == (k :> v) @@ f

NoRow == At(Row("", "None", FIAT, "None", NaN, NaN, NaN, NaN, NaN), NaT)

NoBuys == [pure |-> TRUE, n |-> 0, q |-> Zero, qp |-> Zero, fee |-> Zero]
Impure == [pure |-> FALSE, n |-> 0, q |-> Zero, qp |-> Zero, fee |-> Zero]

\* Whether _analyze_data iterates the row: the loader's year filter keeps it
\* and its coin is one of the six the snapshot loops over.
Fed(row, year) == row.coin \in WellKnown /\ InYear(row, year)

\* realized: per coin, the profit of every Sell the replay counted.
HistRealized(h, row, holding) ==
    IF row.coin # "JPY" /\ Kind(row) \in {"Sell", "MarketSell"}
       /\ SellCounted(holding, YearlySell(row).quantity)
    THEN Put(h, row.coin,
             RAdd(Get(h, row.coin, Zero),
                  RSub(YearlySell(row).sale_amount,
                       RMul(RDiv(holding.total_cost, holding.quantity),
                            YearlySell(row).quantity))))
    ELSE h

\* window: per coin, the sum over the exchange-spot Sells the snapshot
\* iterated of proceeds - average cost at that moment * quantity sold, and
\* whether every record of the coin it iterated was an exchange-spot Buy or
\* Sell.
NoWindow == [sum |-> Zero, trades_only |-> TRUE]
HistWindow(h, row, s) ==
    LET w == Get(h, row.coin, NoWindow)
        avg == IF RPos(s.total_quantity)
               THEN RDiv(s.total_principal, s.total_quantity) ELSE Zero
    IN  Put(h, row.coin,
            [sum |-> IF Kind(row) = "Sell"
                     THEN RAdd(w.sum, RSub(Proceeds(row), RMul(avg, QtySold(row))))
                     ELSE w.sum,
             trades_only |-> w.trades_only /\ Kind(row) \in {"Buy", "Sell"}])

\* buys: per coin, while every record the snapshot iterated is an
\* exchange-spot Buy with quantity q > 0 and price p: their number, the sums
\* of q, of q*p and of the order fees.
HistBuys(h, row) ==
    LET b == Get(h, row.coin, NoBuys) IN
    IF b.pure /\ Kind(row) = "Buy" /\ notna(row.sqty) /\ RPos(row.sqty)
       /\ notna(row.rate)
    THEN Put(h, row.coin,
             [pure |-> TRUE, n |-> b.n + 1, q |-> RAdd(b.q, row.sqty),
              qp |-> RAdd(b.qp, RMul(row.sqty, row.rate)),
              fee |-> RAdd(b.fee, IF notna(row.fee) THEN row.fee ELSE Zero)])
    ELSE Put(h, row.coin, Impure)

\* ----------------------------------------------------------- the actions

\* The order sort_values sorts the timestamps into: ascending, NaT last.
TsLe(a, b) == b = NaT \/ (a # NaT /\ a <= b)

\* Mutant: the table is iterated as loaded, without sorting.
SortValues_Unsorted(data) == {data}

\* Every table sort_values may return: a permutation of the rows in that
\* order.  The default sort is quicksort, which is not stable, so rows of
\* equal timestamp come in any order.
SortValues(data) ==
    LET n == Len(data)
        perms == { p \in [1..n -> 1..n] : \A i, j \in 1..n : i # j => p[i] # p[j] }
    IN  { [i \in 1..n |-> data[p[i]]] :
            p \in { q \in perms :
                      \A i, j \in 1..n : i < j => TsLe(data[q[i]].ts, data[q[j]].ts) } }

EmptyReplay == [holdings |-> <<>>, yp |-> <<>>, ycp |-> <<>>, nNaN |-> 0]

RECURSIVE ReplayRows(_, _, _)
ReplayRows(st, data, i) ==
    IF i > Len(data) THEN st ELSE ReplayRows(YearlyRow(st, data[i]), data, i + 1)

\* calculate_yearly_profit over a sorted table: the two result mappings.
YearlyProfit(sorted) ==
    LET st == ReplayRows(EmptyReplay, sorted, 1)
    IN  [yearly_profits |-> st.yp, yearly_coin_profits |-> st.ycp]

NoResult == [yearly_profits |-> <<>>, yearly_coin_profits |-> <<>>]

SortIdle ==
    /\ all_data = <<>>
    /\ sort_pc = "input"
    /\ result = NoResult
    /\ first = [data |-> <<>>, result |-> NoResult]

LedgerInit ==
    /\ nEvents = 0
    /\ lastTs = 1
    /\ coin_holdings = <<>>
    /\ yearly_profits = <<>>
    /\ yearly_coin_profits = <<>>
    /\ nNaN = 0
    /\ sel_year \in {ALL, Year(1)}
    /\ current_prices = InitialPrices
    /\ snap = <<>>
    /\ last = [row |-> NoRow, holdings |-> <<>>, yp |-> <<>>, ycp |-> <<>>,
               snap |-> <<>>]
    /\ hist = [realized |-> <<>>, window |-> <<>>, buys |-> <<>>]

\* The two sessions of the UI that share one analyzer.
Sessions == {1, 2}

\* A session outside analyze_transactions.
IdleCall == [pc |-> "idle", year |-> ALL, prices |-> <<>>, filtered_data |-> <<>>,
             snap |-> <<>>, results |-> <<>>, returned |-> FALSE]

NoCall == [done |-> FALSE, year |-> ALL, prices |-> <<>>, data |-> <<>>,
           results |-> <<>>, run |-> "first"]

\* transaction_data is None
NotLoaded == [loaded |-> FALSE, data |-> <<>>]

\* CryptoAnalyzer.__init__, and no call made yet.
AnalyzerInit ==
    /\ transaction_data = NotLoaded
    /\ calls = [c \in Sessions |-> IdleCall]
    /\ nCalls = 0
    /\ run = "first"
    /\ firstCall = NoCall

NoScenario == [fn |-> "none", coin |-> "", price |-> Zero, additional |-> Zero,
               out |-> <<>>]

\* What the checkpoint file holds: nothing (no file), a JSON list of
\* checkpoints, other valid JSON, or text json.load rejects (an empty or
\* truncated file among them).  len stands for the length of the text.
NoFile == [kind |-> "absent", items |-> <<>>, len |-> 0]
ListFile(items) == [kind |-> "list", items |-> items, len |-> Len(items) + 1]
ObjectFile == [kind |-> "object", items |-> <<>>, len |-> 1]
Garbage(len) == [kind |-> "garbage", items |-> <<>>, len |-> len]

\* load_checkpoints: the list in the file; [] without a file or on a
\* JSONDecodeError.
LoadCheckpoints(file) == IF file.kind = "list" THEN file.items ELSE <<>>

IdleSave == [pc |-> "idle", checkpoints |-> <<>>, began |-> <<>>]
NoSave == [done |-> FALSE, began |-> <<>>, checkpoint |-> [timestamp |-> 0, by |-> 0],
           after |-> <<>>]

LogIdle ==
    /\ checkpoint_file = NoFile
    /\ saves = [c \in Sessions |-> IdleSave]
    /\ nSaves = 0
    /\ stored = <<>>
    /\ lastSave = NoSave

\* No call has been made on the loader's two feeds.
NoEntry == [fn |-> "none", year |-> ALL, raised |-> "none", out |-> <<>>]
LoaderIdle == gmo_data = <<>> /\ mercari_data = <<>> /\ entry = NoEntry

ExtIdle == AnalyzerInit /\ scenario = NoScenario /\ LogIdle /\ LoaderIdle

Init == LedgerInit /\ SortIdle /\ ExtIdle

\* The next record of the table, in ascending timestamp order with NaT last,
\* goes through one iteration of the replay loop and, when the snapshot's
\* window holds it, through one iteration of the snapshot loop of its coin.
IterateRow(r) ==
    /\ TsLe(lastTs, r.ts)
    /\ \E st2 \in {YearlyRow([holdings |-> coin_holdings, yp |-> yearly_profits,
                             ycp |-> yearly_coin_profits, nNaN |-> nNaN], r)} :
       \E s \in {Get(snap, r.coin, EmptySnap)} :
       LET fed == Fed(r, sel_year)
       IN  /\ coin_holdings' = st2.holdings
           /\ yearly_profits' = st2.yp
           /\ yearly_coin_profits' = st2.ycp
           /\ nNaN' = st2.nNaN
           /\ snap' = IF fed THEN Put(snap, r.coin, SnapRow(s, r)) ELSE snap
           /\ last' = [row |-> r, holdings |-> coin_holdings, yp |-> yearly_profits,
                       ycp |-> yearly_coin_profits, snap |-> snap]
           /\ hist' = [realized |-> HistRealized(hist.realized, r,
                                                 Get(coin_holdings, r.coin, EmptyHolding)),
                       window |-> IF fed THEN HistWindow(hist.window, r, s)
                                  ELSE hist.window,
                       buys |-> IF fed THEN HistBuys(hist.buys, r) ELSE hist.buys]
    /\ nEvents' = nEvents + 1
    /\ lastTs' = r.ts
    /\ UNCHANGED <<sel_year, current_prices>>
    /\ UNCHANGED <<sortVars, extVars>>

\* Tables of up to MaxEvents records of the ledger runs.
Next ==
    /\ nEvents < MaxEvents
    /\ \E row \in Rows, ts \in Timestamps \cup {NaT} : IterateRow(At(row, ts))

Spec == Init /\ [][Next]_vars

\* Tables of up to MaxShapeEvents records of every shape.
ShapeNext ==
    /\ nEvents < MaxShapeEvents
    /\ \E row \in ShapeRows, ts \in Timestamps \cup {NaT} : IterateRow(At(row, ts))

SpecShapes == Init /\ [][ShapeNext]_vars

\* ------------------------------------------- the replay over whole tables

SortRows ==
    { Row("ETH", "Buy", SPOT, "None", NaN, Num(2), Num(10), NaN, Num(1)),
      Row("ETH", "Sell", SPOT, "None", NaN, Num(1), Num(10), Num(30), NaN) }

SortTables ==
    UNION { [1..n -> { At(row, ts) : row \in SortRows, ts \in (1..MaxSortLen) \cup {NaT} }] :
            n \in 1..MaxSortLen }

\* The table as loaded is any table in ascending order; Permute brings it
\* into every other order.
Ascending(data) ==
    \A i, j \in 1..Len(data) : i < j => TsLe(data[i].ts, data[j].ts)

SortInit ==
    /\ LedgerInit
    /\ sel_year = ALL
    /\ all_data \in { t \in SortTables : Ascending(t) }
    /\ sort_pc = "input"
    /\ result = NoResult
    /\ first = [data |-> <<>>, result |-> NoResult]
    /\ ExtIdle

\* calculate_yearly_profit, called on the table as loaded.
CallYearly ==
    /\ sort_pc = "input"
    /\ \E sorted \in SortValues(all_data) :
          /\ result' = YearlyProfit(sorted)
          /\ first' = [data |-> all_data, result |-> YearlyProfit(sorted)]
    /\ sort_pc' = "called"
    /\ UNCHANGED all_data
    /\ UNCHANGED <<ledgerVars, extVars>>

\* The same records arrive in another order: two neighbours change places.
Permute ==
    /\ sort_pc \in {"called", "permuted"}
    /\ \E i \in 1..(Len(all_data) - 1) :
          all_data' = [all_data EXCEPT ![i] = all_data[i + 1], ![i + 1] = all_data[i]]
    /\ sort_pc' = "permuted"
    /\ UNCHANGED <<result, first>>
    /\ UNCHANGED <<ledgerVars, extVars>>

\* calculate_yearly_profit, called again on the permuted table.
CallYearlyAgain ==
    /\ sort_pc = "permuted"
    /\ \E sorted \in SortValues(all_data) : result' = YearlyProfit(sorted)
    /\ sort_pc' = "called"
    /\ UNCHANGED <<all_data, first>>
    /\ UNCHANGED <<ledgerVars, extVars>>

SortNext == CallYearly \/ Permute \/ CallYearlyAgain

SpecSort == SortInit /\ [][SortNext]_vars

\* ---------------------------------------------------- analyze_transactions

\* filter_data_by_year as the analyzer consumes it: the rows of the table
\* that the year keeps, in the table's order.
\* Mutant: the year is ignored and every row is returned.
FilterDataByYear_Unfiltered(data, year) == data

RECURSIVE FilterDataByYear(_, _)
FilterDataByYear(data, year) ==
    IF data = <<>> THEN <<>>
    ELSE IF InYear(Head(data), year)
         THEN <<Head(data)>> \o FilterDataByYear(Tail(data), year)
         ELSE FilterDataByYear(Tail(data), year)

\* Mutant: the accumulators of the call before are carried on.
FreshLedger_Kept(left) == left

\* The accumulators every coin starts a call with: all 0, whatever the call
\* before left in them.
FreshLedger(left) == <<>>

\* The per-coin loops of _analyze_data over the filtered table: the final
\* accumulators of every well-known coin that has a row.
RECURSIVE AnalyzeRows(_, _, _)
AnalyzeRows(s, data, i) ==
    IF i > Len(data) THEN s
    ELSE LET row == data[i] IN
         IF row.coin \in WellKnown
         THEN AnalyzeRows(Put(s, row.coin, SnapRow(Get(s, row.coin, EmptySnap), row)),
                          data, i + 1)
         ELSE AnalyzeRows(s, data, i + 1)

\* The result mapping built from the final accumulators and the prices read.
Results(s, prices) == [c \in DOMAIN s |-> SnapResult(s[c], PriceOf(prices, c))]

\* The records of the analyzer calls: the worked example's Buy and Sell.
CallRows == {ExampleBuy, ExampleSell}
CallTimestamps == {1, 2}
CallStamped == { At(row, ts) : row \in CallRows, ts \in CallTimestamps }
CallTables == UNION { [1..n -> CallStamped] : n \in 0..MaxTable }
CallYears == {ALL} \cup { Year(ts) : ts \in CallTimestamps }

\* The price maps a caller passes; the second one has no price for BTC.
PriceMaps == { [BTC |-> Num(6000000), ETH |-> Num(5)], [ETH |-> Num(5)] }

CallInit ==
    /\ LedgerInit
    /\ sel_year = ALL
    /\ all_data \in CallTables
    /\ sort_pc = "input"
    /\ result = NoResult
    /\ first = [data |-> <<>>, result |-> NoResult]
    /\ ExtIdle

\* analyze_transactions is entered and stores the prices it was given.
SetCurrentPrices(c, year, prices) ==
    /\ calls[c].pc = "idle"
    /\ nCalls < MaxCalls
    /\ nCalls' = nCalls + 1
    /\ current_prices' = prices
    /\ calls' = [calls EXCEPT ![c] = [@ EXCEPT !.pc = "set", !.year = year,
                                               !.prices = prices,
                                               !.returned = FALSE]]
    /\ UNCHANGED <<transaction_data, run, firstCall, scenario, logVars, loaderVars>>
    /\ UNCHANGED <<nEvents, lastTs, coin_holdings, yearly_profits, yearly_coin_profits,
                   nNaN, sel_year, snap, last, hist>>
    /\ UNCHANGED sortVars

\* The table is loaded once and cached; the loader filters it by the year.
LoadAndFilter(c) ==
    /\ calls[c].pc = "set"
    /\ transaction_data' = IF transaction_data = NotLoaded
                           THEN [loaded |-> TRUE, data |-> all_data]
                           ELSE transaction_data
    /\ calls' = [calls EXCEPT ![c] =
                    [@ EXCEPT !.pc = "filtered",
                              !.filtered_data = FilterDataByYear(all_data, calls[c].year)]]
    /\ UNCHANGED <<nCalls, run, firstCall, scenario, logVars, loaderVars>>
    /\ UNCHANGED <<ledgerVars, sortVars>>

\* _analyze_data: reads the stored prices, runs the per-coin loops from
\* fresh accumulators and returns the result mapping.
AnalyzeData(c) ==
    /\ calls[c].pc = "filtered"
    /\ \E s \in {AnalyzeRows(FreshLedger(calls[c].snap), calls[c].filtered_data, 1)} :
          /\ calls' = [calls EXCEPT ![c] =
                          [@ EXCEPT !.pc = "idle", !.snap = s,
                                    !.results = Results(s, current_prices),
                                    !.returned = TRUE]]
          /\ firstCall' = IF firstCall.done THEN firstCall
                          ELSE [done |-> TRUE, year |-> calls[c].year,
                                prices |-> calls[c].prices, data |-> all_data,
                                results |-> Results(s, current_prices), run |-> run]
    /\ UNCHANGED <<transaction_data, nCalls, run, scenario, logVars, loaderVars>>
    /\ UNCHANGED <<ledgerVars, sortVars>>

\* Every table one record away: one record more, at any place, or one less.
Edits(data) ==
    { [i \in 1..(Len(data) + 1) |->
          IF i < k THEN data[i] ELSE IF i = k THEN r ELSE data[i - 1]] :
        k \in IF Len(data) < MaxTable THEN 1..(Len(data) + 1) ELSE {},
        r \in CallStamped }
    \cup
    { [i \in 1..(Len(data) - 1) |-> IF i < k THEN data[i] ELSE data[i + 1]] :
        k \in 1..Len(data) }

\* The program is run again on another record set: a new loader and a new
\* analyzer, as constructed.
Restart ==
    /\ run = "first"
    /\ \A c \in Sessions : calls[c].pc = "idle"
    /\ \E data \in Edits(all_data) : all_data' = data
    /\ run' = "second"
    /\ transaction_data' = NotLoaded
    /\ calls' = [c \in Sessions |-> IdleCall]
    /\ current_prices' = InitialPrices
    /\ UNCHANGED <<nCalls, firstCall, scenario, logVars, loaderVars>>
    /\ UNCHANGED <<nEvents, lastTs, coin_holdings, yearly_profits, yearly_coin_profits,
                   nNaN, sel_year, snap, last, hist>>
    /\ UNCHANGED <<sort_pc, result, first>>

\* One session's calls, one after the other, over one or two runs.
CallNext ==
    \/ \E year \in CallYears, prices \in PriceMaps : SetCurrentPrices(1, year, prices)
    \/ LoadAndFilter(1)
    \/ AnalyzeData(1)
    \/ Restart

SpecCalls == CallInit /\ [][CallNext]_vars

\* The calls of two sessions on the shared analyzer, interleaved.
SessionNext ==
    \E c \in Sessions :
        \/ \E year \in CallYears, prices \in PriceMaps : SetCurrentPrices(c, year, prices)
        \/ LoadAndFilter(c)
        \/ AnalyzeData(c)

SpecSessions == CallInit /\ [][SessionNext]_vars

\* ------------------------------------------ distribution and scenarios

\* get_distribution_data: the lots are the rows of the coin with side Buy
\* whose settled quantity and rate are both present and > 0, whatever their
\* category.
RECURSIVE Distribution(_, _)
Distribution(data, coin) ==
    IF data = <<>> THEN <<>>
    ELSE LET row == Head(data)
             rest == Distribution(Tail(data), coin)
         IN  IF row.coin = coin /\ row.side = "Buy"
                /\ notna(row.sqty) /\ notna(row.rate)
                /\ RPos(row.sqty) /\ RPos(row.rate)
             THEN <<[quantity |-> row.sqty, price |-> row.rate]>> \o rest
             ELSE rest

RECURSIVE SumQuantity(_)
SumQuantity(lots) ==
    IF lots = <<>> THEN Zero ELSE RAdd(Head(lots).quantity, SumQuantity(Tail(lots)))

RECURSIVE SumCost(_)
SumCost(lots) ==
    IF lots = <<>> THEN Zero
    ELSE RAdd(RMul(Head(lots).quantity, Head(lots).price), SumCost(Tail(lots)))

GetDistributionData(data, coin, current_price) ==
    LET distribution == Distribution(data, coin)
        total_quantity == SumQuantity(distribution)
        total_cost == SumCost(distribution)
    IN  [distribution |-> distribution,
         avg_price |-> IF RPos(total_quantity) THEN RDiv(total_cost, total_quantity)
                       ELSE Zero,
         current_price |-> current_price,
         total_quantity |-> total_quantity,
         current_value |-> RMul(total_quantity, current_price)]

\* Mutant: the whole holding is costed at the current price.
CalculateScenario_Revalued(data, coin, current_price, additional_quantity) ==
    LET current_data == GetDistributionData(data, coin, current_price)
        current_quantity == current_data.total_quantity
        current_avg_price == current_data.avg_price
        current_total_cost == RMul(current_quantity, current_avg_price)
        new_quantity == RAdd(current_quantity, additional_quantity)
        new_total_cost == RMul(new_quantity, current_price)
        new_avg_price == IF RPos(new_quantity) THEN RDiv(new_total_cost, new_quantity)
                         ELSE Zero
        new_value == RMul(new_quantity, current_price)
    IN  [current |-> [quantity |-> current_quantity, avg_price |-> current_avg_price,
                      total_cost |-> current_total_cost,
                      value |-> RMul(current_quantity, current_price)],
         new |-> [quantity |-> new_quantity, avg_price |-> new_avg_price,
                  total_cost |-> new_total_cost, value |-> new_value],
         change |-> [quantity |-> additional_quantity,
                     avg_price |-> RSub(new_avg_price, current_avg_price),
                     total_cost |-> RSub(new_total_cost, current_total_cost),
                     value |-> RSub(new_value, RMul(current_quantity, current_price))]]

CalculateScenario(data, coin, current_price, additional_quantity) ==
    LET current_data == GetDistributionData(data, coin, current_price)
        current_quantity == current_data.total_quantity
        current_avg_price == current_data.avg_price
        current_total_cost == RMul(current_quantity, current_avg_price)
        new_quantity == RAdd(current_quantity, additional_quantity)
        new_total_cost == RAdd(current_total_cost,
                               RMul(additional_quantity, current_price))
        new_avg_price == IF RPos(new_quantity) THEN RDiv(new_total_cost, new_quantity)
                         ELSE Zero
        new_value == RMul(new_quantity, current_price)
    IN  [current |-> [quantity |-> current_quantity, avg_price |-> current_avg_price,
                      total_cost |-> current_total_cost,
                      value |-> RMul(current_quantity, current_price)],
         new |-> [quantity |-> new_quantity, avg_price |-> new_avg_price,
                  total_cost |-> new_total_cost, value |-> new_value],
         change |-> [quantity |-> additional_quantity,
                     avg_price |-> RSub(new_avg_price, current_avg_price),
                     total_cost |-> RSub(new_total_cost, current_total_cost),
                     value |-> RSub(new_value, RMul(current_quantity, current_price))]]

\* Mutant: the amount is taken for the quantity, without dividing by the price.
AdditionalQuantity_Undivided(current_price, additional_amount) ==
    IF RPos(current_price) THEN additional_amount ELSE Zero

\* additional_amount / current_price if current_price > 0 else 0
AdditionalQuantity(current_price, additional_amount) ==
    IF RPos(current_price) THEN RDiv(additional_amount, current_price) ELSE Zero

CalculateScenarioByAmount(data, coin, current_price, additional_amount) ==
    LET current_data == GetDistributionData(data, coin, current_price)
        current_quantity == current_data.total_quantity
        current_avg_price == current_data.avg_price
        current_total_cost == RMul(current_quantity, current_avg_price)
        additional_quantity == AdditionalQuantity(current_price, additional_amount)
        new_quantity == RAdd(current_quantity, additional_quantity)
        new_total_cost == RAdd(current_total_cost, additional_amount)
        new_avg_price == IF RPos(new_quantity) THEN RDiv(new_total_cost, new_quantity)
                         ELSE Zero
        new_value == RMul(new_quantity, current_price)
    IN  [current |-> [quantity |-> current_quantity, avg_price |-> current_avg_price,
                      total_cost |-> current_total_cost,
                      value |-> RMul(current_quantity, current_price)],
         new |-> [quantity |-> new_quantity, avg_price |-> new_avg_price,
                  total_cost |-> new_total_cost, value |-> new_value],
         change |-> [quantity |-> additional_quantity,
                     avg_price |-> RSub(new_avg_price, current_avg_price),
                     total_cost |-> additional_amount,
                     value |-> RSub(new_value, RMul(current_quantity, current_price))],
         additional_amount |-> additional_amount]

\* The records of the scenario runs: Buys of two coins at different rates,
\* one of them a staking deposit that carries side Buy, and a Sell.
ScenarioRows ==
    { ExampleBuy,
      Row("ETH", "Buy", SPOT, "None", NaN, Num(1), Num(10), NaN, NaN),
      Row("ETH", "Buy", SPOT, "None", NaN, Num(2), Num(40), NaN, Num(1)),
      Row("ETH", "Buy", STAKING, "Deposit", Num(1), Num(2), Num(10), Num(30), Num(1)),
      Row("ETH", "Sell", SPOT, "None", NaN, Num(1), Num(10), Num(30), NaN) }
ScenarioTables == UNION { [1..n -> { At(row, 1) : row \in ScenarioRows }] : n \in 0..MaxTable }
ScenarioCoins == {"BTC", "ETH"}
ScenarioPrices == {Num(-20), Zero, Num(20), Num(50)}
ScenarioQuantities == {Num(-4), Zero, Frac(1, 2), Num(3)}
ScenarioAmounts == {Num(-1000), Zero, Num(30)}

ScenarioInit ==
    /\ LedgerInit
    /\ sel_year = ALL
    /\ all_data \in ScenarioTables
    /\ sort_pc = "input"
    /\ result = NoResult
    /\ first = [data |-> <<>>, result |-> NoResult]
    /\ ExtIdle

\* calculate_scenario is called on the whole table and returns.
CallScenario(coin, current_price, additional_quantity) ==
    /\ scenario' = [fn |-> "calculate_scenario", coin |-> coin,
                    price |-> current_price, additional |-> additional_quantity,
                    out |-> CalculateScenario(FilterDataByYear(all_data, ALL), coin,
                                              current_price, additional_quantity)]
    /\ UNCHANGED <<ledgerVars, sortVars, callVars, logVars, loaderVars>>

\* calculate_scenario_by_amount is called on the whole table and returns.
CallScenarioByAmount(coin, current_price, additional_amount) ==
    /\ scenario' = [fn |-> "calculate_scenario_by_amount", coin |-> coin,
                    price |-> current_price, additional |-> additional_amount,
                    out |-> CalculateScenarioByAmount(FilterDataByYear(all_data, ALL),
                                                      coin, current_price,
                                                      additional_amount)]
    /\ UNCHANGED <<ledgerVars, sortVars, callVars, logVars, loaderVars>>

\* get_distribution_data is called on the whole table and returns.
CallDistribution(coin, current_price) ==
    /\ scenario' = [fn |-> "get_distribution_data", coin |-> coin,
                    price |-> current_price, additional |-> Zero,
                    out |-> GetDistributionData(FilterDataByYear(all_data, ALL), coin,
                                                current_price)]
    /\ UNCHANGED <<ledgerVars, sortVars, callVars, logVars, loaderVars>>

ScenarioNext ==
    \E coin \in ScenarioCoins, current_price \in ScenarioPrices :
        \/ \E q \in ScenarioQuantities : CallScenario(coin, current_price, q)
        \/ \E a \in ScenarioAmounts : CallScenarioByAmount(coin, current_price, a)
        \/ CallDistribution(coin, current_price)

SpecScenario == ScenarioInit /\ [][ScenarioNext]_vars

\* ------------------------------------------------------ the checkpoint log

\* The file as the program finds it: absent, or holding anything.
OldCheckpoint == [timestamp |-> 0, by |-> 0]
PriorFiles == {NoFile, ListFile(<<>>), ListFile(<<OldCheckpoint>>), ObjectFile, Garbage(0),
               Garbage(2)}

LogInit ==
    /\ LedgerInit
    /\ sel_year = ALL
    /\ SortIdle
    /\ AnalyzerInit
    /\ scenario = NoScenario
    /\ LoaderIdle
    /\ checkpoint_file \in PriorFiles
    /\ saves = [c \in Sessions |-> IdleSave]
    /\ nSaves = 0
    /\ stored = LoadCheckpoints(checkpoint_file)
    /\ lastSave = NoSave

\* Mutant: the list to rewrite holds the new checkpoint only.
ReadCheckpoints_Fresh(file) == <<>>

\* The list save_checkpoint starts from: [] without a file, what json.load
\* returns otherwise, [] on a JSONDecodeError.
ReadCheckpoints(file) == IF file.kind = "list" THEN file.items ELSE <<>>

\* save_checkpoint reads the file and appends the new checkpoint to the list
\* in memory.  Valid JSON that is not a list has no append: the call faults
\* before it writes anything.
SaveRead(c) ==
    /\ saves[c].pc = "idle"
    /\ nSaves < MaxSaves
    /\ nSaves' = nSaves + 1
    /\ saves' = [saves EXCEPT ![c] =
                    IF checkpoint_file.kind = "object" THEN IdleSave
                    ELSE [pc |-> "read",
                          checkpoints |-> Append(ReadCheckpoints(checkpoint_file),
                                                 [timestamp |-> nSaves + 1, by |-> c]),
                          began |-> stored]]
    /\ UNCHANGED <<checkpoint_file, stored, lastSave>>
    /\ UNCHANGED <<ledgerVars, sortVars, callVars, scenario, loaderVars>>

\* open(checkpoint_file, 'w') empties the file.
SaveOpen(c) ==
    /\ saves[c].pc = "read"
    /\ checkpoint_file' = Garbage(0)
    /\ saves' = [saves EXCEPT ![c].pc = "opened"]
    /\ UNCHANGED <<nSaves, stored, lastSave>>
    /\ UNCHANGED <<ledgerVars, sortVars, callVars, scenario, loaderVars>>

\* json.dump and the close of the file put the text at the start of the
\* file; a longer text another session wrote meanwhile keeps its tail, which
\* json.load rejects.  The call returns.
SaveDump(c) ==
    /\ saves[c].pc = "opened"
    /\ LET written == ListFile(saves[c].checkpoints)
           new == saves[c].checkpoints[Len(saves[c].checkpoints)]
           file == IF checkpoint_file.len > written.len
                   THEN Garbage(checkpoint_file.len) ELSE written
       IN  /\ checkpoint_file' = file
           /\ stored' = Append(stored, new)
           /\ lastSave' = [done |-> TRUE, began |-> saves[c].began, checkpoint |-> new,
                           after |-> LoadCheckpoints(file)]
    /\ saves' = [saves EXCEPT ![c] = IdleSave]
    /\ UNCHANGED nSaves
    /\ UNCHANGED <<ledgerVars, sortVars, callVars, scenario, loaderVars>>

\* The saves of the sessions, each with its own loader, on the one file.
LogNext == \E c \in Sessions : SaveRead(c) \/ SaveOpen(c) \/ SaveDump(c)

SpecLog == LogInit /\ [][LogNext]_vars

\* ------------------------------------------- the loader's two feeds

\* The values the loader hands to the analyzer carry their Python type: a
\* DataFrame of rows, or the dict filter_data_by_year builds from two of them.
DataFrame(rows) == [type |-> "DataFrame", rows |-> rows]

\* The methods class DataLoader defines.
DataLoaderMethods ==
    {"load_gmo_data", "load_mercari_data", "filter_data_by_year", "get_years",
     "get_coins", "save_checkpoint", "load_checkpoints"}

\* DataLoader.filter_data_by_year: a dict with one DataFrame per feed, each
\* holding the feed's rows that the year keeps.
filter_data_by_year(gmo, mercari, year) ==
    [type |-> "dict",
     gmo |-> DataFrame(FilterDataByYear(gmo, year)),
     mercari |-> DataFrame(FilterDataByYear(mercari, year))]

\* analyze_transactions from the load onwards: what it raises, or returns.
\* Reading an attribute an object does not have raises AttributeError;
\* subscripting the dict with a column name raises KeyError.
analyze_transactions(td, gmo, mercari, year, prices) ==
    IF ~td.loaded /\ "load_transaction_data" \notin DataLoaderMethods
    THEN [raised |-> "AttributeError", out |-> <<>>]
    ELSE LET filtered_data == filter_data_by_year(gmo, mercari, year) IN
         IF filtered_data.type # "DataFrame"
         THEN [raised |-> "KeyError", out |-> <<>>]
         ELSE [raised |-> "none",
               out |-> Results(AnalyzeRows(<<>>, filtered_data.rows, 1), prices)]

LoaderFeeds == CallTables

LoaderInit ==
    /\ LedgerInit
    /\ sel_year = ALL
    /\ SortIdle
    /\ AnalyzerInit /\ scenario = NoScenario /\ LogIdle
    /\ gmo_data \in LoaderFeeds
    /\ mercari_data \in LoaderFeeds
    /\ entry = NoEntry

\* The loader's query is called and returns.
CallFilter(year) ==
    /\ entry' = [fn |-> "filter_data_by_year", year |-> year, raised |-> "none",
                 out |-> filter_data_by_year(gmo_data, mercari_data, year)]
    /\ UNCHANGED <<gmo_data, mercari_data>>
    /\ UNCHANGED <<ledgerVars, sortVars, callVars, scenario, logVars>>

\* analyze_transactions is called: it stores the prices, then loads, filters
\* and analyses, and returns or raises.
CallAnalyze(year, prices) ==
    /\ current_prices' = prices
    /\ \E r \in {analyze_transactions(transaction_data, gmo_data, mercari_data,
                                      year, prices)} :
          /\ entry' = [fn |-> "analyze_transactions", year |-> year,
                       raised |-> r.raised, out |-> r.out]
          /\ transaction_data' =
                 IF "load_transaction_data" \in DataLoaderMethods
                 THEN [loaded |-> TRUE, data |-> gmo_data \o mercari_data]
                 ELSE transaction_data
    /\ UNCHANGED <<gmo_data, mercari_data>>
    /\ UNCHANGED <<calls, nCalls, run, firstCall, scenario, logVars>>
    /\ UNCHANGED <<nEvents, lastTs, coin_holdings, yearly_profits, yearly_coin_profits,
                   nNaN, sel_year, snap, last, hist>>
    /\ UNCHANGED sortVars

\* calculate_yearly_profit is called: it fetches every record and reads the
\* attribute empty of what it got, then sorts and replays, and returns or
\* raises.
CallYearlyProfit ==
    /\ \E all \in {filter_data_by_year(gmo_data, mercari_data, ALL)} :
          IF all.type # "DataFrame"
          THEN entry' = [fn |-> "calculate_yearly_profit", year |-> ALL,
                         raised |-> "AttributeError", out |-> <<>>]
          ELSE \E sorted \in SortValues(all.rows) :
                   entry' = [fn |-> "calculate_yearly_profit", year |-> ALL,
                             raised |-> "none", out |-> YearlyProfit(sorted)]
    /\ UNCHANGED <<gmo_data, mercari_data>>
    /\ UNCHANGED <<ledgerVars, sortVars, callVars, scenario, logVars>>

LoaderNext ==
    \/ \E year \in CallYears : CallFilter(year)
    \/ \E year \in CallYears, prices \in PriceMaps : CallAnalyze(year, prices)
    \/ CallYearlyProfit

SpecLoader == LoaderInit /\ [][LoaderNext]_vars

\* ------------------------------------------------------------ properties

\* The row last iterated and the per-coin state before and after it.
Acted == nEvents > 0
R == last.row
InReplay == Acted /\ R.coin # "JPY"
InSnapshot == Acted /\ Fed(R, sel_year)
PreH == Get(last.holdings, R.coin, EmptyHolding)
PostH == Get(coin_holdings, R.coin, EmptyHolding)
PreS == Get(last.snap, R.coin, EmptySnap)
PostS == Get(snap, R.coin, EmptySnap)
RowYear == YearKey(R.ts, nNaN - 1)
ProfitAdded == RSub(Get(yearly_profits, RowYear, Zero), Get(last.yp, RowYear, Zero))
CoinProfitAdded ==
    RSub(Get(Get(yearly_coin_profits, RowYear, <<>>), R.coin, Zero),
         Get(Get(last.ycp, RowYear, <<>>), R.coin, Zero))

\* C1: in both modes, a Sell of more than the held quantity, applied to a coin
\* whose held quantity and cost basis are >= 0, leaves both >= 0.
C1_SellNeverDrivesNegative ==
    /\ (InReplay /\ Kind(R) = "Sell" /\ RLt(PreH.quantity, QtySold(R))
          /\ RNonNeg(PreH.quantity) /\ RNonNeg(PreH.total_cost))
        => (RNonNeg(PostH.quantity) /\ RNonNeg(PostH.total_cost))
    /\ (InSnapshot /\ Kind(R) = "Sell" /\ RLt(PreS.total_quantity, QtySold(R))
          /\ RNonNeg(PreS.total_quantity) /\ RNonNeg(PreS.total_principal))
        => (RNonNeg(PostS.total_quantity) /\ RNonNeg(PostS.total_principal))

\* C2: in both modes, a Sell applied while the held quantity is <= 0 changes
\* neither the held quantity nor the cost basis and adds nothing to realized
\* profit.
C2_SellWithoutHoldingsIsNoOp ==
    /\ (InReplay /\ Kind(R) = "Sell" /\ ~RPos(PreH.quantity))
        => (PostH = PreH /\ ProfitAdded = Zero /\ CoinProfitAdded = Zero)
    /\ (InSnapshot /\ Kind(R) = "Sell" /\ ~RPos(PreS.total_quantity))
        => (/\ PostS.total_quantity = PreS.total_quantity
            /\ PostS.total_principal = PreS.total_principal
            /\ PostS.realized_profit = PreS.realized_profit)

\* C3: in the replay, a Sell of qty_sold > 0 of a coin with held quantity
\* H > 0 and cost basis C adds P - (C/H)*qty_sold to the year's profit and
\* to the coin's profit of that year, P being the sale amount of the row (for
\* a row without order fee: the settlement amount when present, else
\* quantity * rate), and leaves held quantity H - qty_sold and cost basis
\* C - (C/H)*qty_sold.  With H = 0.5, C = 2,500,500, selling 0.2 for
\* 1,300,000: profit 299,800, held quantity 0.3, cost basis 1,500,300.
C3_Case ==
    InReplay /\ Kind(R) = "Sell" /\ RPos(QtySold(R)) /\ RPos(PreH.quantity)
Result(c) == SnapResult(snap[c], PriceOf(current_prices, c))

\* C4: every coin's realized_profit in the snapshot is the sum, over the Sell
\* records of the coin in the window, of proceeds - average cost at the moment
\* of the sale * quantity sold.  Stated for the coins whose records in the
\* window are exchange-spot Buys and Sells only.
C4_SnapshotRealizedProfit ==
    \A c \in DOMAIN snap :
        hist.window[c].trades_only => Result(c).realized_profit = hist.window[c].sum

\* C5: when every record iterated so far belongs to one coin and one year,
\* the snapshot of that window and the replay hold the same quantity and the
\* same cost basis for the coin, and the snapshot's realized_profit is the
\* replay's realized profit of the coin.
C5_ModesAgree ==
    \A c \in WellKnown : \A y \in Years :
        (/\ DOMAIN coin_holdings = {c}
         /\ DOMAIN yearly_profits = {<<y, 0>>}
         /\ sel_year \in {ALL, y})
        => (/\ c \in DOMAIN snap
            /\ snap[c].total_quantity = coin_holdings[c].quantity
            /\ snap[c].total_principal = coin_holdings[c].total_cost
            /\ snap[c].realized_profit = yearly_coin_profits[<<y, 0>>][c])

RECURSIVE SumOver(_, _)
SumOver(f, S) ==
    IF S = {} THEN Zero
    ELSE LET k == CHOOSE x \in S : TRUE IN RAdd(f[k], SumOver(f, S \ {k}))
Sum(f) == SumOver(f, DOMAIN f)

\* C6: every year's profit is the sum of that year's per-coin profits, and
\* the profits of all years add up to the realized profit of all counted
\* Sells of all coins.
C6_YearlyAdditivity ==
    /\ \A y \in DOMAIN yearly_profits :
           yearly_profits[y] = Sum(yearly_coin_profits[y])
    /\ Sum(yearly_profits) = Sum(hist.realized)
C6_Witness ==
    \E y1 \in DOMAIN yearly_profits : \E y2 \in DOMAIN yearly_profits :
        /\ y1 # y2
        /\ yearly_profits[y1] # Zero
        /\ yearly_profits[y2] # Zero
        /\ Cardinality(DOMAIN yearly_coin_profits[y2]) >= 1

\* C7: the replay carries every coin's holding from row to row, across
\* years: a counted Sell is costed with the quantity and cost basis held
\* before it, whatever year they were bought in; its profit goes to the year
\* of the Sell's own timestamp in both mappings, every other year's entries
\* stay as they were, and no other coin's holding changes.
C7_Case ==
    InReplay /\ Kind(R) = "Sell" /\ RPos(QtySold(R)) /\ RPos(PreH.quantity)
C7_CarriedAcrossYears ==
    InReplay =>
        /\ \A c \in DOMAIN last.holdings \ {R.coin} :
               coin_holdings[c] = last.holdings[c]
        /\ \A k \in DOMAIN last.yp \ {RowYear} :
               /\ yearly_profits[k] = last.yp[k]
               /\ yearly_coin_profits[k] = last.ycp[k]
        /\ C7_Case =>
               LET cost_of_sold ==
                       RMul(RDiv(PreH.total_cost, PreH.quantity), QtySold(R))
                   profit == RSub(YearlySell(R).sale_amount, cost_of_sold)
               IN  /\ PostH.quantity = RSub(PreH.quantity, QtySold(R))
                   /\ PostH.total_cost = RSub(PreH.total_cost, cost_of_sold)
                   /\ yearly_profits[RowYear] =
                          RAdd(Get(last.yp, RowYear, Zero), profit)
                   /\ yearly_coin_profits[RowYear][R.coin] =
                          RAdd(Get(Get(last.ycp, RowYear, <<>>), R.coin, Zero), profit)
C7_Witness ==
    /\ C7_Case
    /\ R.ts = 2
    /\ <<Year(1), 0>> \in DOMAIN last.yp
    /\ <<Year(2), 0>> \notin DOMAIN last.yp
    /\ RPos(PreH.total_cost)
    /\ yearly_profits[<<Year(2), 0>>] # Zero
    /\ yearly_profits[<<Year(1), 0>>] = Zero

\* C9: in both modes a staking deposit with quantity q > 0 leaves the cost
\* basis unchanged and raises the held quantity by q, whatever its other
\* fields hold.
C9_Case == Acted /\ IsStakingDeposit(R) /\ notna(R.qty) /\ RPos(R.qty)
C9_StakingDepositZeroCost ==
    C9_Case =>
        /\ InReplay => (/\ PostH.total_cost = PreH.total_cost
                        /\ PostH.quantity = RAdd(PreH.quantity, R.qty))
        /\ InSnapshot => (/\ PostS.total_principal = PreS.total_principal
                          /\ PostS.total_quantity = RAdd(PreS.total_quantity, R.qty))
C9_Witness ==
    /\ C9_Case /\ InReplay /\ InSnapshot
    /\ R.side = "Buy" /\ notna(R.sqty) /\ R.sqty # R.qty /\ notna(R.rate)
    /\ notna(R.amount) /\ notna(R.fee)
    /\ RPos(PreH.total_cost)

\* C10: for a coin whose analysed records are N >= 1 exchange-spot Buys at
\* quantities q_i > 0 and prices p_i and nothing else, the snapshot's
\* avg_price is sum(q_i * p_i) / sum(q_i).
C10_Case(c) == c \in DOMAIN hist.buys /\ hist.buys[c].pure /\ hist.buys[c].n >= 1
C10_AvgPriceWithoutFees ==
    \A c \in DOMAIN snap :
        C10_Case(c) => Result(c).avg_price = RDiv(hist.buys[c].qp, hist.buys[c].q)

\* C10, amended: the order fees f_i of the Buys are part of the cost, so the
\* avg_price is sum(q_i * p_i + f_i) / sum(q_i); it is sum(q_i * p_i) / sum(q_i)
\* when no Buy carries a fee.
C10_AvgPriceWithFees ==
    \A c \in DOMAIN snap :
        C10_Case(c) =>
            /\ Result(c).avg_price =
                   RDiv(RAdd(hist.buys[c].qp, hist.buys[c].fee), hist.buys[c].q)
            /\ hist.buys[c].fee = Zero =>
                   Result(c).avg_price = RDiv(hist.buys[c].qp, hist.buys[c].q)
C10_Witness ==
    \E c \in DOMAIN snap :
        /\ C10_Case(c)
        /\ hist.buys[c].n >= 2
        /\ RPos(hist.buys[c].fee)
        /\ Result(c).avg_price # RDiv(hist.buys[c].qp, hist.buys[c].q)

\* C8: for a table whose timestamps are parsable and pairwise distinct,
\* calculate_yearly_profit returns the same two mappings for every order of
\* the records.
DistinctParsable(data) ==
    /\ \A i \in 1..Len(data) : data[i].ts # NaT
    /\ \A i, j \in 1..Len(data) : i # j => data[i].ts # data[j].ts
C11_ProceedsWithoutFee ==
    /\ (InReplay /\ Kind(R) = "Sell" /\ RPos(QtySold(R)) /\ RPos(PreH.quantity))
        => ProfitAdded =
               RSub(Proceeds(R),
                    RMul(RDiv(PreH.total_cost, PreH.quantity), QtySold(R)))
    /\ (InSnapshot /\ Kind(R) = "Sell")
        => RSub(PostS.realized_profit, PreS.realized_profit) = Proceeds(R)

\* C17: a record with an unparsable timestamp takes no part in the replay: it
\* changes no coin's holding and neither result mapping.  (sort_values puts
\* such records last, so the replay with them is the replay without them
\* followed by their iterations.)
C17_UnparsableExcluded ==
    (Acted /\ R.ts = NaT)
        => (/\ coin_holdings = last.holdings
            /\ ProfitAdded = Zero
            /\ yearly_coin_profits = last.ycp)

\* C20: in the replay, in ascending timestamp order, every coin's held
\* quantity is >= 0 after every record.
C20_HeldQuantityNonNegative ==
    \A c \in DOMAIN coin_holdings : RNonNeg(coin_holdings[c].quantity)

\* The call of session 1 that has just returned.
Returned(c) == calls[c].pc = "idle" /\ calls[c].returned

\* C12: a call of analyze_transactions with the year, the prices and the
\* records of an earlier call of the same run returns what that call
\* returned: no call leaves ledger totals, cached records or stored prices
\* behind that change a later result.
C12_Case ==
    /\ Returned(1) /\ nCalls >= 2
    /\ firstCall.done /\ firstCall.run = run
    /\ calls[1].year = firstCall.year
    /\ calls[1].prices = firstCall.prices
C13_OwnPricesOnly ==
    \A c \in Sessions :
        Returned(c) =>
            \A coin \in DOMAIN calls[c].results :
                calls[c].results[coin].current_value =
                    RMul(calls[c].results[coin].quantity,
                         IF coin \in DOMAIN calls[c].prices
                         THEN calls[c].prices[coin] ELSE Zero)

\* C16: for every coin of a snapshot result: principal and quantity are the
\* final cost basis and held quantity; avg_price is principal / quantity when
\* quantity > 0 and 0 otherwise; current_value is quantity * the price given
\* for the coin, 0 when none is given; unrealized_profit is current_value -
\* principal.  One Buy of 0.5 BTC at 5,000,000 with fee 500 at price 6,000,000:
\* principal 2,500,500, quantity 0.5, avg_price 5,001,000, current_value
\* 3,000,000.
C16_Example ==
    /\ Returned(1)
    /\ Len(calls[1].filtered_data) = 1
    /\ [f \in DOMAIN ExampleBuy |-> calls[1].filtered_data[1][f]] = ExampleBuy
    /\ "BTC" \in DOMAIN calls[1].prices
    /\ calls[1].prices["BTC"] = Num(6000000)
C16_WitnessNothingHeld ==
    /\ Returned(1)
    /\ "BTC" \in DOMAIN calls[1].results
    /\ ~RPos(calls[1].results["BTC"].quantity)
    /\ calls[1].results["BTC"].avg_price = Zero
    /\ "BTC" \notin DOMAIN calls[1].prices

\* The records of a table dated in a year, in the table's order.
DatedIn(data, y) == SelectSeq(data, LAMBDA r : r.ts # NaT /\ 2022 + r.ts = y)

\* C19: the snapshot of a selected year Y depends on the records of Y only
\* and starts from an empty ledger: two calls for Y with the same prices,
\* on record sets that agree on the records dated in Y, return the same
\* result, whatever the other records are and whatever was analysed before.
C19_Case ==
    /\ Returned(1) /\ firstCall.done
    /\ calls[1].year # ALL
    /\ calls[1].year = firstCall.year
    /\ calls[1].prices = firstCall.prices
    /\ DatedIn(all_data, calls[1].year) = DatedIn(firstCall.data, calls[1].year)
NoChange == [quantity |-> Zero, avg_price |-> Zero, total_cost |-> Zero, value |-> Zero]

\* C14: for every history of the coin and every current price p,
\* calculate_scenario(coin, p, 0) returns a new state equal to the current
\* state in quantity, avg_price, total_cost and value, and a change of 0 in
\* all four.
C14_Case == scenario.fn = "calculate_scenario" /\ scenario.additional = Zero
C15_Case == scenario.fn = "calculate_scenario_by_amount"
C15_WitnessNoPrice ==
    /\ C15_Case
    /\ scenario.price[1] <= 0 /\ scenario.additional = Num(-1000)
    /\ scenario.out.current.quantity = Num(3)
    /\ scenario.out.new.quantity = Num(3)
    /\ scenario.out.new.total_cost = Num(-910)

\* C18: the checkpoint log is append-only.  When a save_checkpoint returns,
\* load_checkpoints yields the checkpoints stored before the call, unchanged
\* and in their order, followed by the new one; and whenever no save is under
\* way, the log holds every checkpoint ever stored, in the order stored,
\* whatever the file held at the start.
Quiet == \A c \in Sessions : saves[c].pc = "idle"
C18_AppendOnlyLog ==
    /\ lastSave.done => lastSave.after = Append(lastSave.began, lastSave.checkpoint)
    /\ Quiet => LoadCheckpoints(checkpoint_file) = stored

\* C21: for a coin whose whole history consists of Buy records only
\* (exchange-spot or marketplace Buys), the avg_price returned by
\* get_distribution_data equals the weighted-average price of the ledger the
\* yearly replay builds from the same records (total_cost / quantity), and its
\* total_quantity equals the ledger's held quantity.
BuysOnly(data, coin) ==
    /\ \E i \in 1..Len(data) : data[i].coin = coin
    /\ \A i \in 1..Len(data) :
           data[i].coin = coin => Kind(data[i]) \in {"Buy", "MarketBuy"}
LedgerOf(data, coin) ==
    Get(ReplayRows(EmptyReplay, data, 1).holdings, coin, EmptyHolding)
C21_Case ==
    scenario.fn = "get_distribution_data" /\ BuysOnly(all_data, scenario.coin)
C21_DistributionMatchesLedger ==
    C21_Case =>
        /\ scenario.out.avg_price = AvgCost(LedgerOf(all_data, scenario.coin))
        /\ scenario.out.total_quantity = LedgerOf(all_data, scenario.coin).quantity

\* C22: classification is first-match-wins in the order staking deposit,
\* staking fee, fee rebate, marketplace trade, exchange-spot trade, otherwise
\* drop, the same in both modes.  A staking record changes only the quantity,
\* by its staking quantity, and a fee rebate only the cost, by its rebate,
\* whatever side and trade fields it carries; a Buy whose category holds both
\* markers is booked as a marketplace Buy (resolved quantity, absolute
\* settlement amount); a record with neither marker changes nothing.
Resolved(row) == IF notna(row.sqty) THEN row.sqty ELSE row.qty
SameBut(s, quantity, principal) ==
    [s EXCEPT !.total_quantity = quantity, !.total_principal = principal]
C22_Staking ==
    Kind(R) \in {"StakingDeposit", "StakingFee"} =>
        LET d == IF Kind(R) = "StakingDeposit" THEN StakingQuantity(R)
                 ELSE RNeg(StakingQuantity(R))
        IN  /\ InReplay =>
                /\ PostH = [PreH EXCEPT !.quantity = RAdd(@, d)]
                /\ ProfitAdded = Zero
            /\ InSnapshot =>
                PostS = SameBut(PreS, RAdd(PreS.total_quantity, d), PreS.total_principal)
C22_Rebate ==
    Kind(R) = "FeeRebate" =>
        /\ InReplay =>
            /\ PostH = [PreH EXCEPT !.total_cost = RSub(@, RebateAmount(R))]
            /\ ProfitAdded = Zero
        /\ InSnapshot =>
            PostS = SameBut(PreS, PreS.total_quantity,
                            RSub(PreS.total_principal, RebateAmount(R)))
C22_BothMarkers ==
    (HasMarket(R.cat) /\ HasSpot(R.cat) /\ Kind(R) = "MarketBuy"
     /\ notna(R.amount) /\ notna(Resolved(R)) /\ RPos(Resolved(R))) =>
        /\ InReplay =>
            PostH = [quantity |-> RAdd(PreH.quantity, Resolved(R)),
                     total_cost |-> RAdd(PreH.total_cost, RAbs(R.amount))]
        /\ InSnapshot =>
            PostS = SameBut(PreS, RAdd(PreS.total_quantity, Resolved(R)),
                            RAdd(PreS.total_principal, RAbs(R.amount)))
C22_NoMarker ==
    (Kind(R) = "Drop" /\ ~HasMarket(R.cat) /\ ~HasSpot(R.cat)) =>
        /\ InReplay => PostH = PreH /\ ProfitAdded = Zero
        /\ InSnapshot => PostS = PreS
C22_WitnessRebateBuy ==
    /\ InReplay /\ InSnapshot
    /\ R.cat = REBATE /\ R.side = "Buy" /\ R.sqty = Num(1)
    /\ PostH.quantity = PreH.quantity
    /\ PostS.total_principal = RSub(PreS.total_principal, Num(3))

\* C23: a marketplace Buy adds its resolved quantity (the settled quantity
\* when present, otherwise the quantity) to the held quantity and the absolute
\* settlement amount to the cost basis, a missing settlement amount counting
\* as 0; the record is dropped only when both quantity fields are absent.
AmountOrZero(row) == IF notna(row.amount) THEN RAbs(row.amount) ELSE Zero
C23_MarketplaceBuy ==
    (Acted /\ Kind(R) = "MarketBuy") =>
        IF notna(Resolved(R))
        THEN /\ InReplay =>
                 PostH = [quantity |-> RAdd(PreH.quantity, Resolved(R)),
                          total_cost |-> RAdd(PreH.total_cost, AmountOrZero(R))]
             /\ InSnapshot =>
                 PostS = SameBut(PreS, RAdd(PreS.total_quantity, Resolved(R)),
                                 RAdd(PreS.total_principal, AmountOrZero(R)))
        ELSE /\ InReplay => PostH = PreH
             /\ InSnapshot => PostS = PreS

\* C24: a Buy with no usable quantity (the settled quantity absent on an
\* exchange-spot Buy; settled quantity and quantity both absent on a
\* marketplace Buy) is dropped in both modes: held quantity and cost basis
\* are unchanged, and in particular its order fee is not added to the cost.
C24_Case ==
    /\ Acted
    /\ \/ Kind(R) = "Buy" /\ ~notna(R.sqty)
       \/ Kind(R) = "MarketBuy" /\ ~notna(R.sqty) /\ ~notna(R.qty)
C24_UnusableBuyDropped ==
    C24_Case =>
        /\ InReplay => PostH = PreH
        /\ InSnapshot => PostS = PreS

\* C25: in either mode, applying a Sell never increases the coin's cost
\* basis: the cost basis after the Sell is <= the cost basis before it, also
\* when earlier fee rebates have made the cost basis negative.
RLe(a, b) == ~RLt(b, a)
C25_Case == Acted /\ Kind(R) \in {"Sell", "MarketSell"}
C25_WitnessNegative ==
    /\ C25_Case /\ InReplay
    /\ ~RNonNeg(PreH.total_cost) /\ RLt(PreH.total_cost, PostH.total_cost)

\* C26: a marketplace trade with side Sell falls through to drop: in the
\* snapshot and in the yearly replay it changes neither the held quantity nor
\* the cost basis and contributes no realized profit.
C26_MarketplaceSellDropped ==
    (Acted /\ Kind(R) = "MarketSell") =>
        /\ InReplay => PostH = PreH /\ ProfitAdded = Zero /\ CoinProfitAdded = Zero
        /\ InSnapshot => PostS = PreS

\* C27: in both modes a fee rebate never changes the held quantity; it lowers
\* the cost basis by exactly its settlement amount when that amount is present
\* and > 0, and leaves the cost basis unchanged when the amount is absent,
\* zero or negative.
C27_Case == Acted /\ Kind(R) = "FeeRebate"
C27_Lowered(before, after) ==
    IF notna(R.amount) /\ RPos(R.amount) THEN after = RSub(before, R.amount)
    ELSE after = before
C27_FeeRebate ==
    C27_Case =>
        /\ InReplay =>
            /\ PostH.quantity = PreH.quantity
            /\ C27_Lowered(PreH.total_cost, PostH.total_cost)
        /\ InSnapshot =>
            /\ PostS.total_quantity = PreS.total_quantity
            /\ C27_Lowered(PreS.total_principal, PostS.total_principal)
C27_Witness ==
    /\ C27_Case /\ InReplay /\ InSnapshot
    /\ R.amount = Num(3)
    /\ RPos(PreH.quantity) /\ RPos(PreS.total_quantity)
    /\ PostH.total_cost = RSub(PreH.total_cost, Num(3))
    /\ PostS.total_principal = RSub(PreS.total_principal, Num(3))
C27_WitnessUnchanged ==
    /\ C27_Case /\ InReplay /\ InSnapshot
    /\ R.amount \in {NaN, Zero, Num(-3)}
    /\ RPos(PreH.total_cost) /\ PostH = PreH /\ PostS = PreS

\* C28: in both modes, a Sell of exactly the whole held quantity (quantity
\* sold = held quantity > 0) leaves held quantity 0 and cost basis 0: the full
\* cost of the sold units is removed from the cost basis (the snapshot's
\* principal).
C28_Case == Acted /\ Kind(R) = "Sell" /\ RPos(QtySold(R))
C28_SellAllLeavesNothing ==
    C28_Case =>
        /\ (InReplay /\ QtySold(R) = PreH.quantity) =>
               PostH = [quantity |-> Zero, total_cost |-> Zero]
        /\ (InSnapshot /\ QtySold(R) = PreS.total_quantity) =>
               PostS.total_quantity = Zero /\ PostS.total_principal = Zero

\* C29: in both modes, a partial Sell (0 < quantity sold < held quantity)
\* leaves the coin's average acquisition price unchanged: cost basis / held
\* quantity after the Sell equals cost basis / held quantity before it.
C29_Case == Acted /\ Kind(R) = "Sell" /\ RPos(QtySold(R))
C29_PartialSellKeepsAverage ==
    C29_Case =>
        /\ (InReplay /\ RLt(QtySold(R), PreH.quantity)) =>
               RDiv(PostH.total_cost, PostH.quantity)
                   = RDiv(PreH.total_cost, PreH.quantity)
        /\ (InSnapshot /\ RLt(QtySold(R), PreS.total_quantity)) =>
               RDiv(PostS.total_principal, PostS.total_quantity)
                   = RDiv(PreS.total_principal, PreS.total_quantity)
C29_Witness ==
    /\ C29_Case /\ InReplay /\ InSnapshot
    /\ RLt(QtySold(R), PreH.quantity) /\ RLt(QtySold(R), PreS.total_quantity)
    /\ RPos(PreH.total_cost) /\ RPos(PreS.total_principal)
    /\ RLt(PostH.total_cost, PreH.total_cost)
    /\ RLt(PostS.total_principal, PreS.total_principal)
    /\ AvgCost(PostH) = AvgCost(PreH) /\ AvgPrice(PostS) = AvgPrice(PreS)

\* C30: an exchange-spot record whose side is neither Buy nor Sell produces no
\* event in either mode: held quantity, cost basis and realized profit are all
\* unchanged.
C30_Case ==
    /\ Acted /\ Kind(R) = "Drop"
    /\ HasSpot(R.cat) /\ ~HasMarket(R.cat) /\ R.side = "None"
C30_NoSideNoEvent ==
    C30_Case =>
        /\ InReplay => PostH = PreH /\ ProfitAdded = Zero /\ CoinProfitAdded = Zero
        /\ InSnapshot => PostS = PreS

\* C31: the sort of the chronological replay is stable: records of equal
\* timestamp are applied in their input order, so the result of
\* calculate_yearly_profit is the result of replaying the table in its one
\* stable ascending order; a Buy followed in the input by a Sell of the same
\* coin at the same timestamp is applied Buy first.
StableOrder(data) ==
    CHOOSE sorted \in SortValues(data) :
        \E p \in [1..Len(data) -> 1..Len(data)] :
            /\ \A i, j \in 1..Len(data) : i # j => p[i] # p[j]
            /\ \A i \in 1..Len(data) : sorted[i] = data[p[i]]
            /\ \A i, j \in 1..Len(data) :
                   (i < j /\ data[p[i]].ts = data[p[j]].ts) => p[i] < p[j]
Parsable(data) == \A i \in 1..Len(data) : data[i].ts # NaT
C31_StableSort ==
    (sort_pc = "called" /\ Parsable(all_data)) =>
        result = YearlyProfit(StableOrder(all_data))

\* C32: the loader query the analyzer consumes returns one flat ordered
\* sequence of records combining both feeds (every record for 'all', exactly
\* the records of the given year otherwise), and analyze_transactions and
\* calculate_yearly_profit complete and return a result for every record set
\* instead of failing.
RECURSIVE Count(_, _)
Count(data, row) ==
    IF data = <<>> THEN 0
    ELSE (IF Head(data) = row THEN 1 ELSE 0) + Count(Tail(data), row)
Combines(rows, year) ==
    LET kept == FilterDataByYear(gmo_data, year) \o FilterDataByYear(mercari_data, year)
    IN  /\ Len(rows) = Len(kept)
        /\ \A i \in 1..Len(kept) : Count(rows, kept[i]) = Count(kept, kept[i])
C32_FlatTableAndCompletion ==
    /\ entry.fn = "filter_data_by_year" =>
           entry.out.type = "DataFrame" /\ Combines(entry.out.rows, entry.year)
    /\ entry.fn \in {"analyze_transactions", "calculate_yearly_profit"} =>
           entry.raised = "none"

\* C33: when save_checkpoint calls of different sessions interleave, every new
\* checkpoint is present in the log once the calls have returned: whenever no
\* save is under way, load_checkpoints yields each checkpoint whose save has
\* returned.
C33_NoCheckpointLost ==
    Quiet =>
        \A i \in 1..Len(stored) :
            stored[i].by \in Sessions =>
                \E j \in 1..Len(LoadCheckpoints(checkpoint_file)) :
                    LoadCheckpoints(checkpoint_file)[j] = stored[i]

====
